---------------------------- MODULE Spec2Model ----------------------------
(***************************************************************************)
(* Battle engine of the Naruto RPG bot (package naruto_bot, started by     *)
(* src/main.py).  The model covers the redis-backed battle records         *)
(* (battle_state, battle_lock, user_battle_id), the player profile store   *)
(* (sqlite row plus the "players" cache entry), the three battle handlers  *)
(* (/battle, /use, /flee) and the conclusion routine.                      *)
(*                                                                         *)
(* Scheduling.  main.py builds the Application without concurrent_updates, *)
(* so python-telegram-bot processes one update at a time: a handler runs   *)
(* to completion before the next update is taken.  The model therefore     *)
(* has one in-flight request (req); time passes between handlers.  The     *)
(* APScheduler jobs of scheduler.py are not started (main.py comments      *)
(* setup_scheduler out), so nothing regenerates chakra or sweeps battles.  *)
(*                                                                         *)
(* Time.  The clock advances in steps of PLAYER_CACHE_TTL seconds; a redis *)
(* key written at time t with ex=ttl is readable while now < t + ttl.      *)
(***************************************************************************)
EXTENDS Integers, Sequences, FiniteSets, TLC

\* ------------------------------------------------------------------ bounds
MaxTicks   == 2   \* clock steps explored
MaxBattles == 2   \* battle ids minted (uuid4 values)
MaxTurns   == 3   \* turns accepted in one battle
MaxQuietTicks == 1 \* clock steps explored after the players stopped acting

\* --------------------------------------------------------- program constants
PLAYER_CACHE_TTL == 1800
BATTLE_CACHE_TTL == 3600
WIN_COOLDOWN     == 60
LOSS_COOLDOWN    == 30
EFFECT_TURNS     == 3
MAX_LEVEL        == 60

NULL == "NULL"          \* Python None where the value is a string
NONE == 0               \* Python None where the value is an id

Players   == {1, 2, 3}
BattleIds == 1..MaxBattles

\* ----------------------------------------------------------- static tables
VILLAGES ==
  [ konoha |-> [element_bonus |-> "fire",  bonus_percent |-> 15],
    suna   |-> [element_bonus |-> "wind",  bonus_percent |-> 15] ]

\* variant of ELEMENT_MATRIX: wind against fire is as strong as fire
\* against wind
ELEMENT_MATRIX_SYMMETRIC ==
  [ fire      |-> [wind |-> 150, earth |-> 75, water |-> 50, lightning |-> 100, fire |-> 100, none |-> 100],
    water     |-> [fire |-> 150, earth |-> 100, lightning |-> 50, wind |-> 75, water |-> 100, none |-> 100],
    wind      |-> [lightning |-> 150, earth |-> 50, fire |-> 150, water |-> 100, wind |-> 100, none |-> 100],
    earth     |-> [lightning |-> 150, water |-> 75, fire |-> 100, wind |-> 150, earth |-> 100, none |-> 100],
    lightning |-> [water |-> 150, earth |-> 50, wind |-> 75, fire |-> 100, lightning |-> 100, none |-> 100],
    none      |-> [fire |-> 100, water |-> 100, wind |-> 100, earth |-> 100, lightning |-> 100, none |-> 100] ]

\* multipliers in hundredths
ELEMENT_MATRIX ==
  [ fire      |-> [wind |-> 150, earth |-> 75, water |-> 50, lightning |-> 100, fire |-> 100, none |-> 100],
    water     |-> [fire |-> 150, earth |-> 100, lightning |-> 50, wind |-> 75, water |-> 100, none |-> 100],
    wind      |-> [lightning |-> 150, earth |-> 50, fire |-> 75, water |-> 100, wind |-> 100, none |-> 100],
    earth     |-> [lightning |-> 150, water |-> 75, fire |-> 100, wind |-> 150, earth |-> 100, none |-> 100],
    lightning |-> [water |-> 150, earth |-> 50, wind |-> 75, fire |-> 100, lightning |-> 100, none |-> 100],
    none      |-> [fire |-> 100, water |-> 100, wind |-> 100, earth |-> 100, lightning |-> 100, none |-> 100] ]

\* the entries of JUTSU_LIBRARY the modelled players can name; effect NULL
\* stands for a jutsu without an 'effect' key
JUTSU_LIBRARY ==
  [ fireball     |-> [power |-> 45, chakra_cost |-> 25, element |-> "fire",  effect |-> NULL],
    wind_scythe  |-> [power |-> 50, chakra_cost |-> 30, element |-> "wind",  effect |-> NULL],
    earth_wall   |-> [power |-> 0,  chakra_cost |-> 35, element |-> "earth", effect |-> "defense_up"],
    dust_cloud   |-> [power |-> 0,  chakra_cost |-> 30, element |-> "wind",  effect |-> "accuracy_down"],
    clone_jutsu  |-> [power |-> 0,  chakra_cost |-> 15, element |-> "none",  effect |-> "distract"],
    chakra_heal  |-> [power |-> 50, chakra_cost |-> 30, element |-> "none",  effect |-> "heal"] ]

JutsuKeys == DOMAIN JUTSU_LIBRARY

StatusTags == {"evasion_up", "defense_up", "stun", "accuracy_down"}

\* ------------------------------------------------------------------- state
VARIABLES
  now,        \* clock, seconds
  db,         \* players table: user_id -> row
  pcache,     \* redis "players:<id>": [val, exp]
  lock,       \* redis "battle_lock:<id>": [val, exp], val the opponent's id
  ubid,       \* redis "user_battle_id:<id>": [val, exp], val a battle id
  bstate,     \* redis "battle_state:<battle id>": [val, exp], val a Battle
  nextId,     \* battle ids minted so far + 1
  req,        \* the update being handled: Idle, or the locals of /use
  reply,      \* kind of the last answer a handler sent
  hist,       \* observation only: what the handlers did, per battle
  jobs        \* job_queue: the training completion jobs scheduled

vars == <<now, db, pcache, lock, ubid, bstate, nextId, req, reply, hist, jobs>>

\* a key redis does not hold: an id-valued key, an object-valued key
Absent    == [val |-> NONE, exp |-> 0]
AbsentObj == [val |-> [none |-> TRUE], exp |-> 0]

\* cache.py get_data finds the key: it was set and its ex= time is ahead
Has(entry) == now < entry.exp

\* cache.py get_data for the id-valued keys: the value, None when missing
Get(entry) == IF Has(entry) THEN entry.val ELSE NONE

\* variant of Put: the key is set without ex= and outlives every clock
\* value explored
PutWithoutExpiry(value, ttl) ==
  [val |-> value, exp |-> now + ttl + (MaxTicks + MaxQuietTicks) * PLAYER_CACHE_TTL]

\* cache.py set_data with ex=ttl
Put(value, ttl) == [val |-> value, exp |-> now + ttl]

\* cache.py is_in_battle
is_in_battle(p) == Get(lock[p]) # NONE

\* cache.py get_battle_opponent
get_battle_opponent(p) == Get(lock[p])

\* models.py Player.__init__: the derived maxima of a row
MaxHpOf(stamina)        == 100 + stamina * 10
MaxChakraOf(intelligence) == 100 + intelligence * 5

Min(a, b) == IF a < b THEN a ELSE b
Max(a, b) == IF a > b THEN a ELSE b

\* models.py create_player / Player.__init__: a row as the program stores it
NewPlayer(village, known) ==
  [ village |-> village, level |-> 1, exp |-> 0,
    stamina |-> 10, intelligence |-> 10, speed |-> 10,
    max_hp |-> MaxHpOf(10), current_hp |-> MaxHpOf(10),
    max_chakra |-> MaxChakraOf(10), current_chakra |-> MaxChakraOf(10),
    known_jutsus |-> known, current_mission |-> NULL, battle_cooldown |-> 0,
    wins |-> 0, losses |-> 0 ]

\* models.py _load_from_db -> Player.__init__: max values are re-derived
\* from the stats and the current values capped on every load
LoadRow(row) ==
  [ row EXCEPT !.max_hp = MaxHpOf(row.stamina),
               !.current_hp = Min(row.current_hp, MaxHpOf(row.stamina)),
               !.max_chakra = MaxChakraOf(row.intelligence),
               !.current_chakra = Min(row.current_chakra, MaxChakraOf(row.intelligence)) ]

\* models.py get_player: the cached object when there is one, else the row
get_player(p) == IF Has(pcache[p]) THEN pcache[p].val ELSE LoadRow(db[p])

\* models.py get_player: a row loaded on a cache miss is cached
CacheFill(pc, p) ==
  IF Has(pc[p]) THEN pc ELSE [pc EXCEPT ![p] = Put(LoadRow(db[p]), PLAYER_CACHE_TTL)]

RECURSIVE CacheFillAll(_, _)
CacheFillAll(pc, ps) ==
  IF ps = <<>> THEN pc ELSE CacheFillAll(CacheFill(pc, Head(ps)), Tail(ps))

\* models.py is_on_cooldown('battle')
is_on_cooldown(player) == player.battle_cooldown # 0 /\ now < player.battle_cooldown

\* models.py get_exp_for_level
get_exp_for_level(level) == IF level <= 0 THEN 0 ELSE level * 150

\* models.py add_exp, one pass of its while loop: a level gained, stats
\* grown, maxima recomputed, a partial restore
LevelUpOnce(pl) ==
  LET stamina == pl.stamina + 2
      intel   == pl.intelligence + 1
      maxhp   == MaxHpOf(stamina)
      maxck   == MaxChakraOf(intel)
      heal    == (maxhp - pl.max_hp) + (maxhp * 25) \div 100
      restore == (maxck - pl.max_chakra) + (maxck * 25) \div 100
      lvl     == pl.level + 1
      rest    == pl.exp - get_exp_for_level(pl.level)
  IN [ pl EXCEPT !.level = lvl,
                 !.exp = IF lvl = MAX_LEVEL
                         THEN Min(rest, get_exp_for_level(lvl) - 1) ELSE rest,
                 !.stamina = stamina, !.speed = pl.speed + 1,
                 !.intelligence = intel,
                 !.max_hp = maxhp, !.max_chakra = maxck,
                 !.current_hp = Min(maxhp, pl.current_hp + heal),
                 !.current_chakra = Min(maxck, pl.current_chakra + restore) ]

RECURSIVE LevelUps(_)
LevelUps(pl) ==
  IF pl.exp >= get_exp_for_level(pl.level) /\ pl.level < MAX_LEVEL
  THEN LevelUps(LevelUpOnce(pl)) ELSE pl

\* models.py add_exp
add_exp(pl, amount) ==
  IF amount <= 0 THEN pl ELSE LevelUps([pl EXCEPT !.exp = pl.exp + amount])

\* models.py set_cooldown('battle', seconds)
set_cooldown(pl, seconds) == [pl EXCEPT !.battle_cooldown = now + seconds]

\* ------------------------------------------------------------ battle.py
\* Battle._serialize_player
serialize_player(pl) ==
  [ level |-> pl.level, current_hp |-> pl.current_hp, max_hp |-> pl.max_hp,
    current_chakra |-> pl.current_chakra, max_chakra |-> pl.max_chakra,
    speed |-> pl.speed, intelligence |-> pl.intelligence,
    stamina |-> pl.stamina, village |-> pl.village,
    known_jutsus |-> pl.known_jutsus, battle_effects |-> {} ]

\* variant of FirstTurn: equal speeds give the first move to the challenged
FirstTurnStrict(id1, speed1, id2, speed2) == IF speed1 > speed2 THEN id1 ELSE id2

\* Battle.__init__: who moves first
FirstTurn(id1, speed1, id2, speed2) == IF speed1 >= speed2 THEN id1 ELSE id2

\* Battle.__init__
NewBattle(id1, p1, id2, p2, battle_id) ==
  [ battle_id |-> battle_id, player1_id |-> id1, player2_id |-> id2,
    turn |-> FirstTurn(id1, p1.speed, id2, p2.speed),
    log |-> << <<"started", id1>> >>,
    turn_count |-> 1,
    players |-> (id1 :> serialize_player(p1)) @@ (id2 :> serialize_player(p2)),
    battle_message_id |-> NONE,
    last_action_time |-> now ]

\* Battle.get_opponent_data: the id whose snapshot it returns
OpponentOf(b, user_id) ==
  IF user_id = b.player1_id THEN b.player2_id ELSE b.player1_id

\* variant of switch_turn: the turn is handed over, the count is kept
switch_turn_keep_count(b) ==
  [ b EXCEPT !.turn = IF b.turn = b.player1_id THEN b.player2_id ELSE b.player1_id,
             !.last_action_time = now ]

\* Battle.switch_turn
switch_turn(b) ==
  [ b EXCEPT !.turn = IF b.turn = b.player1_id THEN b.player2_id ELSE b.player1_id,
             !.turn_count = b.turn_count + 1,
             !.last_action_time = now ]

\* Battle.update_player_resource
update_player_resource(b, user_id, resource, value) ==
  IF user_id \in DOMAIN b.players /\ resource \in DOMAIN b.players[user_id]
  THEN [b EXCEPT !.players[user_id][resource] = value]
  ELSE b

\* battle_animation_flow, TempPlayer.get_village_bonus
get_village_bonus(village) ==
  IF village \in DOMAIN VILLAGES
  THEN <<VILLAGES[village].element_bonus, VILLAGES[village].bonus_percent>>
  ELSE <<"none", 0>>

\* calculate_damage, steps 1 to 6: the product before truncation is
\* num / den with
\*   base   = (2*power + 4*level + 3*intelligence) / 2
\*   bonus  = (100 + bonus_percent) / 100 when the elements match
\*   matrix = ELEMENT_MATRIX[..][..] / 100,  critical = 18/10 or 1
\*   defense_reduction = 1 - stamina/(stamina+100) = 100/(stamina+100)
\* The code multiplies in double precision, left to right, and int()
\* truncates.  Where the exact product is a whole number n the double
\* product can come out just below it (12.999999999999998 for 13), and
\* int() gives n - 1.  FloatShortfall lists the arguments
\* <<2*base, bonus, matrix, critical, defender stamina>> for which it does,
\* among the arguments the specifications use: attackers and defenders
\* with the stats create_player and add_exp give at levels 1 to 14, and the
\* attackers and defenders of ResolveInputs.
FloatShortfall ==
  { <<26, 115, 100, 10, 15>>,  <<34, 115, 100, 10, 15>>,  <<50, 115, 100, 10, 15>>,
    <<50, 115, 100, 18, 15>>,  <<100, 115, 100, 10, 15>>, <<100, 115, 100, 18, 15>>,
    <<100, 115, 150, 10, 15>>, <<100, 115, 150, 18, 15>>, <<104, 100, 75, 10, 30>>,
    <<104, 100, 150, 10, 30>>, <<104, 115, 100, 10, 30>>, <<110, 115, 100, 10, 15>>,
    <<110, 115, 100, 18, 15>>, <<116, 115, 100, 10, 15>>, <<116, 115, 150, 10, 15>>,
    <<124, 115, 100, 10, 15>>, <<124, 115, 150, 10, 15>>, <<126, 115, 100, 10, 15>>,
    <<134, 100, 100, 10, 34>>, <<169, 100, 100, 18, 30>>, <<176, 115, 75, 10, 10>>,
    <<176, 115, 100, 10, 10>>, <<208, 100, 150, 10, 30>>, <<208, 115, 100, 10, 30>>,
    <<208, 115, 150, 10, 30>> }

RawDamage(attacker, defender, jutsu, is_critical) ==
  LET vb      == get_village_bonus(attacker.village)
      base2   == 2 * jutsu.power + 4 * attacker.level + 3 * attacker.intelligence
      bonus   == IF vb[1] = jutsu.element THEN 100 + vb[2] ELSE 100
      matrix  == ELEMENT_MATRIX[jutsu.element][get_village_bonus(defender.village)[1]]
      crit    == IF is_critical THEN 18 ELSE 10
      num     == base2 * bonus * matrix * crit
      den     == 2 * 100 * 10 * (defender.stamina + 100)
  IN IF <<base2, bonus, matrix, crit, defender.stamina>> \in FloatShortfall
     THEN num \div den - 1
     ELSE num \div den

\* variant of EffectOverride: a heal is returned as its power, unsigned
EffectOverrideUnsigned(damage, jutsu) ==
  IF jutsu.effect = NULL THEN damage
  ELSE IF jutsu.effect = "heal" THEN jutsu.power
  ELSE IF jutsu.effect \in StatusTags THEN 0
  ELSE damage

\* calculate_damage, step 7: the effect override
EffectOverride(damage, jutsu) ==
  IF jutsu.effect = NULL THEN damage
  ELSE IF jutsu.effect = "heal" THEN 0 - jutsu.power
  ELSE IF jutsu.effect \in StatusTags THEN 0
  ELSE damage

\* calculate_damage: (final_damage, is_critical, is_elemental_bonus, effect)
calculate_damage(attacker, defender, jutsu_key, is_critical) ==
  LET jutsu == JUTSU_LIBRARY[jutsu_key]
  IN [ damage |-> EffectOverride(RawDamage(attacker, defender, jutsu, is_critical), jutsu),
       is_critical |-> is_critical,
       is_elem_bonus |->
         ELEMENT_MATRIX[jutsu.element][get_village_bonus(defender.village)[1]] > 120,
       effect |-> jutsu.effect ]

Abs(x) == IF x < 0 THEN 0 - x ELSE x

\* variant of ApplyHeal: the heal is added without the cap at max_hp
ApplyHealUncapped(snap, amount) ==
  [snap EXCEPT !.current_hp = snap.current_hp + Abs(amount)]

\* battle_animation_flow step 6, the heal branch
ApplyHeal(snap, amount) ==
  [snap EXCEPT !.current_hp = Min(snap.max_hp, snap.current_hp + Abs(amount))]

\* variant of ApplyHit: the damage is subtracted without the floor at 0
ApplyHitUnclamped(snap, amount) ==
  [snap EXCEPT !.current_hp = snap.current_hp - amount]

\* battle_animation_flow step 6, the damage branch
ApplyHit(snap, amount) ==
  [snap EXCEPT !.current_hp = Max(0, snap.current_hp - amount)]

\* variant of ApplyOutcome: the damage branch is run after a heal as well
ApplyOutcomeHealThenHit(b, user_id, res) ==
  LET opp == OpponentOf(b, user_id) IN
  IF res.effect # NULL THEN
    IF res.effect = "heal"
    THEN [b EXCEPT !.players[user_id] = ApplyHeal(b.players[user_id], res.damage),
                   !.players[opp] = ApplyHit(b.players[opp], res.damage)]
    ELSE IF res.effect = "defense_up"
    THEN [b EXCEPT !.players[user_id].battle_effects =
            {e \in b.players[user_id].battle_effects : e[1] # "defense_up"}
              \cup {<<"defense_up", EFFECT_TURNS>>}]
    ELSE b
  ELSE [b EXCEPT !.players[opp] = ApplyHit(b.players[opp], res.damage)]

\* battle_animation_flow step 6: the battle after the outcome is applied
ApplyOutcome(b, user_id, res) ==
  LET opp == OpponentOf(b, user_id) IN
  IF res.effect # NULL THEN
    IF res.effect = "heal"
    THEN [b EXCEPT !.players[user_id] = ApplyHeal(b.players[user_id], res.damage)]
    ELSE IF res.effect = "defense_up"
    THEN [b EXCEPT !.players[user_id].battle_effects =
            {e \in b.players[user_id].battle_effects : e[1] # "defense_up"}
              \cup {<<"defense_up", EFFECT_TURNS>>}]
    ELSE b
  ELSE [b EXCEPT !.players[opp] = ApplyHit(b.players[opp], res.damage)]

\* variant of WinnerOf: the defender's hp is not looked at
WinnerOfActorOnly(b, user_id) ==
  LET opp == OpponentOf(b, user_id) IN
  IF b.players[user_id].current_hp <= 0 THEN opp ELSE NONE

\* variant of WinnerOf: a combatant has lost only below 0 hp
WinnerOfBelowZero(b, user_id) ==
  LET opp == OpponentOf(b, user_id) IN
  IF b.players[opp].current_hp < 0 THEN user_id
  ELSE IF b.players[user_id].current_hp < 0 THEN opp
  ELSE NONE

\* battle_animation_flow step 8
WinnerOf(b, user_id) ==
  LET opp == OpponentOf(b, user_id) IN
  IF b.players[opp].current_hp <= 0 THEN user_id
  ELSE IF b.players[user_id].current_hp <= 0 THEN opp
  ELSE NONE


\* ------------------------------------------------------------- the clock
\* The model looks at the system every PLAYER_CACHE_TTL seconds; every
\* handler runs at one of these instants.

\* redis drops a key once its ex= time has passed
Expire(f, t, gone) ==
  [k \in DOMAIN f |-> IF t < f[k].exp THEN f[k] ELSE gone]

\* ------------------------------------------------------------------- Init
\* Players 1 and 2 have reached level 8 (exp 150+300+..+1050), player 3 is
\* new.  Chakra is only ever spent (scheduler.py is not started), so the
\* veterans' current_chakra is below its maximum.
Veteran(village, known, chakra) ==
  [ add_exp(NewPlayer(village, known), 4200) EXCEPT !.current_chakra = chakra ]

InitDb ==
  (1 :> Veteran("konoha", {"fireball", "chakra_heal"}, 50))
  @@ (2 :> Veteran("suna", {"wind_scythe", "earth_wall"}, 65))
  @@ (3 :> [NewPlayer("suna", {"clone_jutsu"}) EXCEPT !.exp = 100])

\* no update is being handled
Idle == [phase |-> "idle"]

\* the last message a handler sent to user: its kind
Answer(user, kind) == kind

NoHist == [turns |-> <<>>, concluded |-> FALSE, winner |-> NONE, players |-> {}]

Init ==
  /\ now = 0
  /\ db = InitDb
  /\ pcache = [p \in Players |-> AbsentObj]
  /\ lock = [p \in Players |-> Absent]
  /\ ubid = [p \in Players |-> Absent]
  /\ bstate = [b \in BattleIds |-> AbsentObj]
  /\ nextId = 1
  /\ req = Idle
  /\ reply = "none"
  /\ hist = [b \in BattleIds |-> NoHist]
  /\ jobs = {}

\* time passes between two updates
Tick ==
  /\ req.phase = "idle"
  /\ now < MaxTicks * PLAYER_CACHE_TTL
  /\ now' = now + PLAYER_CACHE_TTL
  /\ pcache' = Expire(pcache, now + PLAYER_CACHE_TTL, AbsentObj)
  /\ lock' = Expire(lock, now + PLAYER_CACHE_TTL, Absent)
  /\ ubid' = Expire(ubid, now + PLAYER_CACHE_TTL, Absent)
  /\ bstate' = Expire(bstate, now + PLAYER_CACHE_TTL, AbsentObj)
  /\ UNCHANGED <<jobs, db, nextId, req, reply, hist>>

\* ------------------------------------------------- handlers/battle_handlers.py

\* variant of DropKeys: only the first of the two keys that is found is
\* deleted
DropKeysFirstFound(f, player1_id, player2_id) ==
  [p \in Players |->
     IF player1_id # NONE /\ Has(f[player1_id])
     THEN (IF p = player1_id THEN Absent ELSE f[p])
     ELSE (IF p = player2_id THEN Absent ELSE f[p])]

\* _cleanup_battle_cache: the keys it deletes; a None player id is skipped
DropKeys(f, player1_id, player2_id) ==
  [p \in Players |-> IF p \in {player1_id, player2_id} THEN Absent ELSE f[p]]

\* the battle keys of the store
Store == [bstate |-> bstate, ubid |-> ubid, lock |-> lock]

\* variant of CleanedStore: the two user_battle_id records are left in place
CleanedStoreKeepLookup(st, battle_id, player1_id, player2_id) ==
  [ bstate |-> [st.bstate EXCEPT ![battle_id] = AbsentObj],
    ubid   |-> st.ubid,
    lock   |-> DropKeys(st.lock, player1_id, player2_id) ]

\* _cleanup_battle_cache: the store it leaves.  delete_data of a key that
\* is missing or expired deletes nothing and raises nothing
CleanedStore(st, battle_id, player1_id, player2_id) ==
  [ bstate |-> [st.bstate EXCEPT ![battle_id] = AbsentObj],
    ubid   |-> DropKeys(st.ubid, player1_id, player2_id),
    lock   |-> DropKeys(st.lock, player1_id, player2_id) ]

cleanup_battle_cache(battle_id, player1_id, player2_id) ==
  LET st == CleanedStore(Store, battle_id, player1_id, player2_id)
  IN /\ bstate' = st.bstate
     /\ ubid' = st.ubid
     /\ lock' = st.lock

\* _end_battle: the experience the winner earns
exp_gain(winner, loser) ==
  Max(10, loser.level * 10 + 25 + Max(0, loser.level - winner.level) * 5)

\* _end_battle: the winner's and the loser's objects as they are saved
RewardWinner(winner, loser) ==
  LET w1 == add_exp(winner, exp_gain(winner, loser))
  IN set_cooldown([w1 EXCEPT !.wins = w1.wins + 1], WIN_COOLDOWN)

RewardLoser(loser) ==
  set_cooldown([loser EXCEPT !.losses = loser.losses + 1], LOSS_COOLDOWN)

\* _end_battle(battle, winner_id); pc is the player cache as the calling
\* handler has left it.  The battle keys are deleted first; with a winner
\* both players are fetched with get_player, rewarded and saved.
end_battle(battle, winner_id, pc) ==
  LET loser_id == OpponentOf(battle, winner_id)
      pc2      == CacheFillAll(pc, <<winner_id, loser_id>>)
      winner   == pc2[winner_id].val
      loser    == pc2[loser_id].val
  IN /\ cleanup_battle_cache(battle.battle_id, battle.player1_id, battle.player2_id)
     /\ IF winner_id # NONE
        THEN /\ pcache' = pc2
             /\ db' = [db EXCEPT ![winner_id] = RewardWinner(winner, loser),
                                 ![loser_id] = RewardLoser(loser)]
        ELSE /\ pcache' = pc
             /\ db' = db
     /\ hist' = [hist EXCEPT ![battle.battle_id].concluded = TRUE,
                             ![battle.battle_id].winner = winner_id]


\* variant of BattleVerdict: the comparison of the two user ids is left out
BattleVerdictNoSelf(c, o, ch, op) ==
  IF ch.current_mission # NULL THEN "ChallengerOnMission"
  ELSE IF is_in_battle(c) THEN "ChallengerInBattle"
  ELSE IF is_on_cooldown(ch) THEN "ChallengerCooldown"
  ELSE IF ch.current_hp <= 0 THEN "ChallengerFainted"
  ELSE IF op.current_mission # NULL THEN "OpponentOnMission"
  ELSE IF is_in_battle(o) THEN "OpponentInBattle"
  ELSE IF op.current_hp <= 0 THEN "OpponentFainted"
  ELSE "BattleStarted"

\* battle_command, its checks in the order of the code; ch and op are the
\* objects get_player returned for the challenger and the opponent
BattleVerdict(c, o, ch, op) ==
  IF ch.current_mission # NULL THEN "ChallengerOnMission"
  ELSE IF is_in_battle(c) THEN "ChallengerInBattle"
  ELSE IF is_on_cooldown(ch) THEN "ChallengerCooldown"
  ELSE IF ch.current_hp <= 0 THEN "ChallengerFainted"
  ELSE IF o = c THEN "SelfChallenge"
  ELSE IF op.current_mission # NULL THEN "OpponentOnMission"
  ELSE IF is_in_battle(o) THEN "OpponentInBattle"
  ELSE IF op.current_hp <= 0 THEN "OpponentFainted"
  ELSE "BattleStarted"

\* the verdicts reached before the opponent is fetched
BeforeOpponent ==
  { "ChallengerOnMission", "ChallengerInBattle", "ChallengerCooldown",
    "ChallengerFainted", "SelfChallenge" }

\* /battle: user c challenges user o
BattleCommand(c, o) ==
  LET pc1     == CacheFill(pcache, c)
      pc2     == CacheFill(pc1, o)
      ch      == pc1[c].val
      op      == pc2[o].val
      verdict == BattleVerdict(c, o, ch, op)
      battle  == [NewBattle(c, ch, o, op, nextId) EXCEPT !.battle_message_id = 1]
  IN /\ req.phase = "idle"
     /\ verdict = "BattleStarted" => nextId <= MaxBattles
     /\ reply' = Answer(c, verdict)
     /\ IF verdict = "BattleStarted"
        THEN /\ lock' = [lock EXCEPT ![c] = Put(o, BATTLE_CACHE_TTL),
                                     ![o] = Put(c, BATTLE_CACHE_TTL)]
             /\ bstate' = [bstate EXCEPT ![nextId] = Put(battle, BATTLE_CACHE_TTL)]
             /\ ubid' = [ubid EXCEPT ![c] = Put(nextId, BATTLE_CACHE_TTL),
                                     ![o] = Put(nextId, BATTLE_CACHE_TTL)]
             /\ nextId' = nextId + 1
             /\ pcache' = pc2
             /\ hist' = [hist EXCEPT ![nextId].players = {c, o}]
        ELSE /\ pcache' = IF verdict \in BeforeOpponent THEN pc1 ELSE pc2
             /\ UNCHANGED <<lock, bstate, ubid, nextId, hist>>
     /\ UNCHANGED <<jobs, now, db, req>>

\* services.py get_jutsu_by_name for a name given as a library key: the key,
\* None when the library does not hold it
get_jutsu_by_name(name) == IF name \in JutsuKeys THEN name ELSE NULL

\* variant of UseVerdict: the check of battle.turn is left out
UseVerdictAnyTurn(u, jutsu_key, pl) ==
  IF ~Has(ubid[u]) THEN "NotInBattle"
  ELSE IF ~Has(bstate[ubid[u].val]) THEN "BattleExpired"
  ELSE IF get_jutsu_by_name(jutsu_key) = NULL THEN "TypeError"
  ELSE IF jutsu_key \notin pl.known_jutsus THEN "AbilityNotLearned"
  ELSE IF pl.current_chakra < JUTSU_LIBRARY[jutsu_key].chakra_cost
       THEN "InsufficientResource"
  ELSE IF get_battle_opponent(u) = NONE THEN "OpponentMissing"
  ELSE IF bstate[ubid[u].val].val.battle_message_id = NONE THEN "DisplayLost"
  ELSE "Accepted"

\* use_jutsu_handler up to the start of battle_animation_flow: the checks,
\* the chakra deduction saved to the players table and written into the
\* handler's copy of the battle.  pl is the object get_player returned
\* and "TypeError" the exception of line 225, which unpacks the None that
\* get_jutsu_by_name returns: the handler ends without an answer
UseVerdict(u, jutsu_key, pl) ==
  IF ~Has(ubid[u]) THEN "NotInBattle"
  ELSE IF ~Has(bstate[ubid[u].val]) THEN "BattleExpired"
  ELSE IF bstate[ubid[u].val].val.turn # u THEN "NotYourTurn"
  ELSE IF get_jutsu_by_name(jutsu_key) = NULL THEN "TypeError"
  ELSE IF jutsu_key \notin pl.known_jutsus THEN "AbilityNotLearned"
  ELSE IF pl.current_chakra < JUTSU_LIBRARY[jutsu_key].chakra_cost
       THEN "InsufficientResource"
  ELSE IF get_battle_opponent(u) = NONE THEN "OpponentMissing"
  ELSE IF bstate[ubid[u].val].val.battle_message_id = NONE THEN "DisplayLost"
  ELSE "Accepted"

\* the player object after the deduction
Deduct(pl, jutsu_key) ==
  [pl EXCEPT !.current_chakra = pl.current_chakra - JUTSU_LIBRARY[jutsu_key].chakra_cost]

UseAccept(u, jutsu_key) ==
  LET pc1     == CacheFill(pcache, u)
      pl      == pc1[u].val
      verdict == UseVerdict(u, jutsu_key, pl)
      bid     == ubid[u].val
      battle  == bstate[bid].val
      paid    == Deduct(pl, jutsu_key)
      mine    == update_player_resource(battle, u, "current_chakra", paid.current_chakra)
  IN /\ req.phase = "idle"
     /\ verdict = "Accepted" => battle.turn_count <= MaxTurns
     /\ reply' = Answer(u, verdict)
     /\ CASE verdict \in {"NotInBattle", "NotYourTurn", "TypeError",
                          "AbilityNotLearned", "InsufficientResource"} ->
               /\ pcache' = pc1
               /\ UNCHANGED <<db, lock, ubid, bstate, req, hist>>
          [] verdict = "BattleExpired" ->
               /\ cleanup_battle_cache(bid, u, NONE)
               /\ pcache' = pc1
               /\ UNCHANGED <<db, req, hist>>
          [] verdict = "OpponentMissing" ->
               /\ end_battle(battle, NONE, pc1)
               /\ UNCHANGED req
          [] verdict = "DisplayLost" ->
               /\ cleanup_battle_cache(bid, battle.player1_id, battle.player2_id)
               /\ pcache' = CacheFill(pc1, get_battle_opponent(u))
               /\ db' = [db EXCEPT ![u] = paid]
               /\ hist' = [hist EXCEPT ![bid].concluded = TRUE]
               /\ UNCHANGED req
          [] verdict = "Accepted" ->
               /\ pcache' = CacheFill(pc1, get_battle_opponent(u))
               /\ db' = [db EXCEPT ![u] = paid]
               /\ req' = [ phase |-> "casting", user |-> u, battle_id |-> bid,
                           jutsu_key |-> jutsu_key, battle |-> mine,
                           stored |-> battle, player |-> pl ]
               /\ hist' = [hist EXCEPT ![bid].turns =
                                   Append(@, <<battle.turn_count, u>>)]
               /\ UNCHANGED <<lock, ubid, bstate>>
     /\ UNCHANGED <<jobs, now, nextId>>

\* battle_animation_flow steps 2 to 4: hand signs, chakra charge and the
\* jutsu's effect are played
UseAnimate ==
  /\ req.phase = "casting"
  /\ req' = [req EXCEPT !.phase = "animating"]
  /\ UNCHANGED <<jobs, now, db, pcache, lock, ubid, bstate, nextId, reply, hist>>

\* battle_animation_flow steps 5 to 8 and the rest of use_jutsu_handler:
\* damage is computed and applied to the handler's copy, the turn is
\* logged, and the battle is concluded or handed to the other player and
\* stored.  is_critical is the draw of random.random()
UseResolve(is_critical) ==
  LET u     == req.user
      b0    == req.battle
      res   == calculate_damage(b0.players[u], b0.players[OpponentOf(b0, u)],
                                req.jutsu_key, is_critical)
      b1    == ApplyOutcome(b0, u, res)
      b2    == [b1 EXCEPT !.log = Append(@, <<"turn", u>>)]
      w     == WinnerOf(b1, u)
      b3    == switch_turn(b2)
  IN /\ req.phase = "animating"
     /\ req' = Idle
     /\ IF w # NONE
        THEN /\ end_battle(b2, w, CacheFill(pcache, w))
             /\ reply' = Answer(u, "BattleWon")
        ELSE /\ bstate' = [bstate EXCEPT ![req.battle_id] = Put(b3, BATTLE_CACHE_TTL)]
             /\ pcache' = CacheFill(pcache, b3.turn)
             /\ reply' = Answer(u, "TurnDone")
             /\ UNCHANGED <<db, lock, ubid, hist>>
     /\ UNCHANGED <<jobs, now, nextId>>

\* variant of Flee: the update is handled while a turn is in its
\* animation, as an Application built with concurrent_updates would do
FleeDuringTurn(u) ==
  LET bid    == ubid[u].val
      battle == bstate[bid].val
      w      == OpponentOf(battle, u)
      fled   == [battle EXCEPT !.log = Append(@, <<"fled", u>>)]
  IN /\ IF ~Has(ubid[u])
        THEN /\ reply' = Answer(u, "NotInBattle")
             /\ UNCHANGED <<db, pcache, lock, ubid, bstate, hist>>
        ELSE IF ~Has(bstate[bid])
        THEN /\ cleanup_battle_cache(bid, u, NONE)
             /\ reply' = Answer(u, "BattleExpired")
             /\ UNCHANGED <<db, pcache, hist>>
        ELSE /\ end_battle(fled, w, CacheFill(pcache, w))
             /\ reply' = Answer(u, "Fled")
     /\ UNCHANGED <<jobs, now, nextId, req>>

\* /flee: the other participant wins
Flee(u) ==
  LET bid    == ubid[u].val
      battle == bstate[bid].val
      w      == OpponentOf(battle, u)
      fled   == [battle EXCEPT !.log = Append(@, <<"fled", u>>)]
  IN /\ req.phase = "idle"
     /\ IF ~Has(ubid[u])
        THEN /\ reply' = Answer(u, "NotInBattle")
             /\ UNCHANGED <<db, pcache, lock, ubid, bstate, hist>>
        ELSE IF ~Has(bstate[bid])
        THEN /\ cleanup_battle_cache(bid, u, NONE)
             /\ reply' = Answer(u, "BattleExpired")
             /\ UNCHANGED <<db, pcache, hist>>
        ELSE /\ end_battle(fled, w, CacheFill(pcache, w))
             /\ reply' = Answer(u, "Fled")
     /\ UNCHANGED <<jobs, now, nextId, req>>


\* --------------------------------------------------------- specification
\* the /battle commands sent: equal speeds (1 on 2), a slower challenger
\* (3 on 1) and a reply to one's own message
Challenges == { <<1, 2>>, <<3, 1>>, <<1, 1>> }

\* the /use commands sent: every jutsu its sender knows, one it does not
\* know and a name the library does not hold
Uses ==
  { <<1, "fireball">>, <<1, "chakra_heal">>, <<2, "wind_scythe">>,
    <<2, "earth_wall">>, <<3, "clone_jutsu">>, <<3, "dust_cloud">>,
    <<1, "rasengan">> }

Next ==
  \/ Tick
  \/ \E pair \in Challenges : BattleCommand(pair[1], pair[2])
  \/ \E use \in Uses : UseAccept(use[1], use[2])
  \/ UseAnimate
  \/ \E is_critical \in BOOLEAN : UseResolve(is_critical)
  \/ \E u \in Players : Flee(u)

Spec == Init /\ [][Next]_vars

\* ------------------------------------------------ faults during a turn
\* An exception escapes battle_animation_flow, before or after the
\* animations of steps 2 to 4: use_jutsu_handler's except branch reports
\* the failure and concludes the battle without a winner
UseRaise ==
  /\ req.phase \in {"casting", "animating"}
  /\ end_battle(req.battle, NONE, pcache)
  /\ reply' = Answer(req.user, "TurnFailed")
  /\ req' = Idle
  /\ UNCHANGED <<jobs, now, nextId>>

NextExc == Next \/ UseRaise

SpecExc == Init /\ [][NextExc]_vars


\* ------------------------------------------- faults of store and rewards
\* One battle_command makes six store writes: 1 and 2 the battle_lock keys
\* of challenger and opponent, 3 battle_state, 4 and 5 the user_battle_id
\* keys of challenger and opponent (lines 115-119), 6 battle_state again
\* with the id of the battle message (line 153).  set_data catches what
\* client.set raises and only logs it, so a refused write is skipped and
\* battle_command goes on.  WriteFaults are the sets of refused writes
\* explored: the challenger's lock, the challenger's lookup record, both
\* writes of the battle state.
WriteFaults == { {1}, {4}, {3, 6} }

\* battle_command calls whose writes are refused: the first ones
MaxFaultyBattles == 1

\* /battle with the writes of lost refused by the store
BattleCommandLossy(c, o, lost) ==
  LET pc1     == CacheFill(pcache, c)
      pc2     == CacheFill(pc1, o)
      ch      == pc1[c].val
      op      == pc2[o].val
      verdict == BattleVerdict(c, o, ch, op)
      fresh   == NewBattle(c, ch, o, op, nextId)
      shown   == [fresh EXCEPT !.battle_message_id = 1]
      Written(k, old, new) == IF k \in lost THEN old ELSE new
  IN /\ req.phase = "idle"
     /\ verdict = "BattleStarted"
     /\ nextId <= MaxBattles
     /\ nextId <= MaxFaultyBattles
     /\ lock' = [lock EXCEPT ![c] = Written(1, @, Put(o, BATTLE_CACHE_TTL)),
                             ![o] = Written(2, @, Put(c, BATTLE_CACHE_TTL))]
     /\ bstate' = [bstate EXCEPT ![nextId] =
                     Written(6, Written(3, @, Put(fresh, BATTLE_CACHE_TTL)),
                             Put(shown, BATTLE_CACHE_TTL))]
     /\ ubid' = [ubid EXCEPT ![c] = Written(4, @, Put(nextId, BATTLE_CACHE_TTL)),
                             ![o] = Written(5, @, Put(nextId, BATTLE_CACHE_TTL))]
     /\ nextId' = nextId + 1
     /\ pcache' = pc2
     /\ reply' = Answer(c, verdict)
     /\ hist' = [hist EXCEPT ![nextId].players = {c, o}]
     /\ UNCHANGED <<jobs, now, db, req>>

\* /battle whose initial battle message cannot be sent: the five keys are
\* written, the except branch of lines 162-165 reports the failure and
\* calls _cleanup_battle_cache.  The battle id is never seen again, the
\* next call's uuid is as fresh as this one was
BattleCommandDisplayFails(c, o) ==
  LET pc1     == CacheFill(pcache, c)
      pc2     == CacheFill(pc1, o)
      ch      == pc1[c].val
      op      == pc2[o].val
      verdict == BattleVerdict(c, o, ch, op)
      fresh   == NewBattle(c, ch, o, op, nextId)
      written == [ bstate |-> [bstate EXCEPT ![nextId] = Put(fresh, BATTLE_CACHE_TTL)],
                   ubid   |-> [ubid EXCEPT ![c] = Put(nextId, BATTLE_CACHE_TTL),
                                           ![o] = Put(nextId, BATTLE_CACHE_TTL)],
                   lock   |-> [lock EXCEPT ![c] = Put(o, BATTLE_CACHE_TTL),
                                           ![o] = Put(c, BATTLE_CACHE_TTL)] ]
      st      == CleanedStore(written, nextId, c, o)
  IN /\ req.phase = "idle"
     /\ verdict = "BattleStarted"
     /\ nextId <= MaxBattles
     /\ bstate' = st.bstate
     /\ ubid' = st.ubid
     /\ lock' = st.lock
     /\ pcache' = pc2
     /\ reply' = Answer(c, "DisplayFailed")
     /\ UNCHANGED <<jobs, now, db, nextId, req, hist>>

\* variant of end_battle_failing: the rewards are credited before the
\* battle keys are deleted, and the exception leaves the keys in place
end_battle_failing_late_cleanup(battle, winner_id, pc, saved) ==
  LET loser_id == OpponentOf(battle, winner_id)
      pc2      == CacheFillAll(pc, <<winner_id, loser_id>>)
      winner   == pc2[winner_id].val
      loser    == pc2[loser_id].val
  IN /\ UNCHANGED <<bstate, ubid, lock>>
     /\ pcache' = pc2
     /\ db' = IF saved = 0 THEN db
              ELSE [db EXCEPT ![winner_id] = RewardWinner(winner, loser)]
     /\ hist' = [hist EXCEPT ![battle.battle_id].concluded = TRUE,
                             ![battle.battle_id].winner = winner_id]

\* _end_battle(battle, winner_id) with an exception raised in the try block
\* of lines 449-505 after saved of the two save() calls: the battle keys
\* were deleted at line 445, the except branch logs and informs the players
end_battle_failing(battle, winner_id, pc, saved) ==
  LET loser_id == OpponentOf(battle, winner_id)
      pc2      == CacheFillAll(pc, <<winner_id, loser_id>>)
      winner   == pc2[winner_id].val
      loser    == pc2[loser_id].val
  IN /\ cleanup_battle_cache(battle.battle_id, battle.player1_id, battle.player2_id)
     /\ pcache' = pc2
     /\ db' = IF saved = 0 THEN db
              ELSE [db EXCEPT ![winner_id] = RewardWinner(winner, loser)]
     /\ hist' = [hist EXCEPT ![battle.battle_id].concluded = TRUE,
                             ![battle.battle_id].winner = winner_id]

\* the save() calls completed when the exception is raised: none, or the
\* winner's
SavedBeforeFailure == {0, 1}

\* /flee of a battle whose rewards cannot be credited
FleeRewardFails(u, saved) ==
  LET bid    == ubid[u].val
      battle == bstate[bid].val
      w      == OpponentOf(battle, u)
      fled   == [battle EXCEPT !.log = Append(@, <<"fled", u>>)]
  IN /\ req.phase = "idle"
     /\ Has(ubid[u])
     /\ Has(bstate[bid])
     /\ end_battle_failing(fled, w, CacheFill(pcache, w), saved)
     /\ reply' = Answer(u, "Fled")
     /\ UNCHANGED <<jobs, now, nextId, req>>

\* the winning turn of a battle whose rewards cannot be credited
UseResolveRewardFails(is_critical, saved) ==
  LET u     == req.user
      b0    == req.battle
      res   == calculate_damage(b0.players[u], b0.players[OpponentOf(b0, u)],
                                req.jutsu_key, is_critical)
      b1    == ApplyOutcome(b0, u, res)
      b2    == [b1 EXCEPT !.log = Append(@, <<"turn", u>>)]
      w     == WinnerOf(b1, u)
  IN /\ req.phase = "animating"
     /\ w # NONE
     /\ req' = Idle
     /\ end_battle_failing(b2, w, CacheFill(pcache, w), saved)
     /\ reply' = Answer(u, "BattleWon")
     /\ UNCHANGED <<jobs, now, nextId>>

\* the commands sent while faults are explored
FaultChallenges == { <<3, 1>>, <<1, 2>> }

FaultUses == { <<1, "fireball">>, <<2, "wind_scythe">>, <<3, "clone_jutsu">> }

NextFault ==
  \/ Tick
  \/ \E pair \in FaultChallenges : BattleCommand(pair[1], pair[2])
  \/ \E pair \in FaultChallenges : \E lost \in WriteFaults :
       BattleCommandLossy(pair[1], pair[2], lost)
  \/ \E pair \in FaultChallenges : BattleCommandDisplayFails(pair[1], pair[2])
  \/ \E use \in FaultUses : UseAccept(use[1], use[2])
  \/ UseAnimate
  \/ \E is_critical \in BOOLEAN : UseResolve(is_critical)
  \/ \E is_critical \in BOOLEAN : \E saved \in SavedBeforeFailure :
       UseResolveRewardFails(is_critical, saved)
  \/ UseRaise
  \/ \E u \in Players : Flee(u)
  \/ \E u \in Players : \E saved \in SavedBeforeFailure : FleeRewardFails(u, saved)

SpecFault == Init /\ [][NextFault]_vars


\* --------------------------------------------- one turn's resolution alone
\* battle_animation_flow steps 5 to 8 on battles given as arguments:
\* calculate_damage on the two snapshots, the outcome applied to them, the
\* winner.  The snapshots are drawn from the sets below
ResolveVillages      == DOMAIN VILLAGES
ResolveLevels        == {1, 5}
ResolveIntelligences == {2, 10}
ResolveStaminas      == {10, 15}
ResolveHps           == {40, 200}
ResolveActorHps      == {100, 170}

\* the snapshot of an attacker: a player with the given stats, short of
\* full hp
ResolveAttacker(village, level, intelligence, hp) ==
  serialize_player([NewPlayer(village, JutsuKeys) EXCEPT
                      !.level = level, !.intelligence = intelligence,
                      !.max_chakra = MaxChakraOf(intelligence),
                      !.current_chakra = MaxChakraOf(intelligence),
                      !.current_hp = hp])

\* the snapshot of a defender
ResolveDefender(village, stamina, hp) ==
  serialize_player([NewPlayer(village, JutsuKeys) EXCEPT
                      !.stamina = stamina, !.max_hp = MaxHpOf(stamina),
                      !.current_hp = hp])

\* what calculate_damage has not returned yet
NoResult == [damage |-> 0, is_critical |-> FALSE, is_elem_bonus |-> FALSE, effect |-> NULL]

\* the calls of battle_animation_flow explored: player 1 attacks player 2
ResolveInputs ==
  { [ phase |-> "resolve", user |-> 1, jutsu_key |-> k, res |-> NoResult,
      winner |-> NONE, battle |-> b, stored |-> b ] :
      k \in JutsuKeys,
      b \in { [ battle_id |-> 1, player1_id |-> 1, player2_id |-> 2, turn |-> 1,
                log |-> << <<"started", 1>> >>, turn_count |-> 1,
                players |-> (1 :> a) @@ (2 :> d),
                battle_message_id |-> 1, last_action_time |-> 0 ] :
              a \in { ResolveAttacker(v, l, i, hp) :
                        v \in ResolveVillages, l \in ResolveLevels,
                        i \in ResolveIntelligences, hp \in ResolveActorHps },
              d \in { ResolveDefender(v, st, hp) :
                        v \in ResolveVillages, st \in ResolveStaminas,
                        hp \in ResolveHps } } }

InitResolve ==
  /\ now = 0
  /\ db = InitDb
  /\ pcache = [p \in Players |-> AbsentObj]
  /\ lock = [p \in Players |-> Absent]
  /\ ubid = [p \in Players |-> Absent]
  /\ bstate = [b \in BattleIds |-> AbsentObj]
  /\ nextId = 1
  /\ req \in ResolveInputs
  /\ reply = "none"
  /\ hist = [b \in BattleIds |-> NoHist]
  /\ jobs = {}

\* step 5: calculate_damage; is_critical is the draw of random.random()
ResolveCalculate(is_critical) ==
  LET b == req.battle
      u == req.user
  IN /\ req.phase = "resolve"
     /\ req' = [req EXCEPT !.phase = "calculated",
                           !.res = calculate_damage(b.players[u],
                                     b.players[OpponentOf(b, u)],
                                     req.jutsu_key, is_critical)]
     /\ UNCHANGED <<jobs, now, db, pcache, lock, ubid, bstate, nextId, reply, hist>>

\* steps 6 and 8: the outcome is applied to the snapshots and the winner
\* returned
ResolveApply ==
  LET b1 == ApplyOutcome(req.battle, req.user, req.res)
  IN /\ req.phase = "calculated"
     /\ req' = [req EXCEPT !.phase = "applied", !.battle = b1,
                           !.winner = WinnerOf(b1, req.user)]
     /\ UNCHANGED <<jobs, now, db, pcache, lock, ubid, bstate, nextId, reply, hist>>

NextResolve ==
  \/ \E is_critical \in BOOLEAN : ResolveCalculate(is_critical)
  \/ ResolveApply

SpecResolve == InitResolve /\ [][NextResolve]_vars


\* ------------------------------------------- handlers/activity_handlers.py
\* Training: /train schedules a job with the job_queue, which runs beside
\* the update handlers.  The clock of this specification stops at the
\* instants below and at the times the scheduled jobs are due.
MaxTrainings == 2   \* /train commands that schedule a job

\* 1710: a player record cached at time 0 (kept PLAYER_CACHE_TTL = 1800 s)
\* expires before a job scheduled now is due; 3690: a record cached by a
\* job run at 1890 has expired
TrainInstants == {1710, 3690}

\* game_data.py TRAINING_ANIMATIONS, the entries whose stat the battle
\* engine reads
TRAINING_ANIMATIONS ==
  [ chakra_control |-> [duration_sec |-> 180, stat |-> "intelligence", gain |-> 2],
    stamina        |-> [duration_sec |-> 180, stat |-> "stamina", gain |-> 3] ]

\* f"Training {display_name}", the value train_command stores in
\* current_mission and the completion job expects
expected_status ==
  [ chakra_control |-> "Training Chakra Control", stamina |-> "Training Stamina" ]

\* player 1 has 20 chakra left, less than any of its jutsus costs
InitTrainDb == [InitDb EXCEPT ![1].current_chakra = 20]

InitTrain ==
  /\ now = 0
  /\ db = InitTrainDb
  /\ pcache = [p \in Players |-> AbsentObj]
  /\ lock = [p \in Players |-> Absent]
  /\ ubid = [p \in Players |-> Absent]
  /\ bstate = [b \in BattleIds |-> AbsentObj]
  /\ nextId = 1
  /\ req = Idle
  /\ reply = "none"
  /\ hist = [b \in BattleIds |-> NoHist]
  /\ jobs = {}

\* time passes until the next instant, or until a job is due
TrainTick(t) ==
  /\ req.phase = "idle"
  /\ t > now
  /\ \A job \in jobs : ~job.done => job.run_at >= t
  /\ now' = t
  /\ pcache' = Expire(pcache, t, AbsentObj)
  /\ lock' = Expire(lock, t, Absent)
  /\ ubid' = Expire(ubid, t, Absent)
  /\ bstate' = Expire(bstate, t, AbsentObj)
  /\ UNCHANGED <<jobs, db, nextId, req, reply, hist>>

\* /train train_type by user u: refused while the player object shows a
\* mission; else the job is scheduled, current_mission is set on the
\* object get_player returned and the object is saved
TrainCommand(u, train_type) ==
  LET pc1      == CacheFill(pcache, u)
      player   == pc1[u].val
      training == TRAINING_ANIMATIONS[train_type]
  IN /\ req.phase = "idle"
     /\ pcache' = pc1
     /\ IF player.current_mission # NULL
        THEN /\ reply' = Answer(u, "TrainBusy")
             /\ UNCHANGED <<db, jobs>>
        ELSE /\ Cardinality(jobs) < MaxTrainings
             /\ jobs' = jobs \cup { [ user_id |-> u, train_type |-> train_type,
                                      run_at |-> now + training.duration_sec,
                                      done |-> FALSE ] }
             /\ db' = [db EXCEPT ![u] =
                         [player EXCEPT !.current_mission = expected_status[train_type]]]
             /\ reply' = Answer(u, "TrainingStarted")
     /\ UNCHANGED <<now, lock, ubid, bstate, nextId, req, hist>>

\* _training_completion_job, "Grant Rewards": the stat gained, the maximum
\* derived from it recomputed, 5 points restored, the status cleared
GrantTraining(player, train_type) ==
  LET training == TRAINING_ANIMATIONS[train_type]
      gained ==
        IF training.stat = "intelligence"
        THEN [player EXCEPT !.intelligence = @ + training.gain,
                            !.max_chakra = MaxChakraOf(player.intelligence + training.gain),
                            !.current_chakra =
                               Min(MaxChakraOf(player.intelligence + training.gain), @ + 5)]
        ELSE [player EXCEPT !.stamina = @ + training.gain,
                            !.max_hp = MaxHpOf(player.stamina + training.gain),
                            !.current_hp =
                               Min(MaxHpOf(player.stamina + training.gain), @ + 5)]
  IN [gained EXCEPT !.current_mission = NULL]

\* the job of a /train, run by the job_queue when it is due: it gives up
\* when the object get_player returns does not show the training, else it
\* grants the rewards on that object and saves it
TrainingCompletionJob(job) ==
  LET u      == job.user_id
      pc1    == CacheFill(pcache, u)
      player == pc1[u].val
  IN /\ ~job.done
     /\ now = job.run_at
     /\ jobs' = (jobs \ {job}) \cup {[job EXCEPT !.done = TRUE]}
     /\ pcache' = pc1
     /\ db' = IF player.current_mission # expected_status[job.train_type]
              THEN db
              ELSE [db EXCEPT ![u] = GrantTraining(player, job.train_type)]
     /\ UNCHANGED <<now, lock, ubid, bstate, nextId, req, reply, hist>>

\* the commands sent while training is going on
TrainChallenges == { <<1, 1>>, <<1, 2>> }

TrainUses == { <<1, "fireball">>, <<2, "wind_scythe">> }

Trainings == { <<1, "chakra_control">>, <<2, "stamina">> }

NextTrain ==
  \/ \E t \in TrainInstants \cup {job.run_at : job \in jobs} : TrainTick(t)
  \/ \E pair \in TrainChallenges : BattleCommand(pair[1], pair[2])
  \/ \E use \in TrainUses : UseAccept(use[1], use[2])
  \/ UseAnimate
  \/ \E is_critical \in BOOLEAN : UseResolve(is_critical)
  \/ \E u \in Players : Flee(u)
  \/ \E tr \in Trainings : TrainCommand(tr[1], tr[2])
  \/ \E job \in jobs : TrainingCompletionJob(job)

SpecTrain == InitTrain /\ [][NextTrain]_vars


\* ------------------------------------------------------- abandoned battles
\* The participants act until the clock has made MaxTicks steps and then
\* stop; the keys they wrote expire as the store's clock goes on.  Redis
\* expires a key when its ex= time has come whatever the program does, so
\* the clock step is taken whenever it stays possible (weak fairness).
Acting == now < MaxTicks * PLAYER_CACHE_TTL

ExpiryTick ==
  /\ req.phase = "idle"
  /\ now < (MaxTicks + MaxQuietTicks) * PLAYER_CACHE_TTL
  /\ now' = now + PLAYER_CACHE_TTL
  /\ pcache' = Expire(pcache, now + PLAYER_CACHE_TTL, AbsentObj)
  /\ lock' = Expire(lock, now + PLAYER_CACHE_TTL, Absent)
  /\ ubid' = Expire(ubid, now + PLAYER_CACHE_TTL, Absent)
  /\ bstate' = Expire(bstate, now + PLAYER_CACHE_TTL, AbsentObj)
  /\ UNCHANGED <<jobs, db, nextId, req, reply, hist>>

AbandonChallenges == { <<1, 2>>, <<3, 1>> }

AbandonUses == { <<1, "fireball">>, <<2, "wind_scythe">>, <<3, "clone_jutsu">> }

NextAbandon ==
  \/ ExpiryTick
  \/ Acting /\ \E pair \in AbandonChallenges : BattleCommand(pair[1], pair[2])
  \/ Acting /\ \E use \in AbandonUses : UseAccept(use[1], use[2])
  \/ UseAnimate
  \/ \E is_critical \in BOOLEAN : UseResolve(is_critical)
  \/ Acting /\ \E u \in Players : Flee(u)

\* a handler that has started is resumed by the event loop after each of
\* its awaits, so a turn that was accepted runs to its end
SpecAbandon ==
  /\ Init /\ [][NextAbandon]_vars
  /\ WF_vars(ExpiryTick)
  /\ WF_vars(UseAnimate)
  /\ WF_vars(\E is_critical \in BOOLEAN : UseResolve(is_critical))


\* ------------------------------------------------- effects across turns
\* A battle in which the challenger moves first (equal speed), raises its
\* defense and moves again after the opponent's turn
EffectChallenges == { <<2, 1>> }

EffectUses == { <<2, "earth_wall">>, <<2, "wind_scythe">>, <<1, "fireball">> }

NextEffects ==
  \/ Tick
  \/ \E pair \in EffectChallenges : BattleCommand(pair[1], pair[2])
  \/ \E use \in EffectUses : UseAccept(use[1], use[2])
  \/ UseAnimate
  \/ \E is_critical \in BOOLEAN : UseResolve(is_critical)
  \/ \E u \in Players : Flee(u)

SpecEffects == Init /\ [][NextEffects]_vars


\* =================================================================== claims
Participants(b) == {b.player1_id, b.player2_id}

\* the battle states the store holds
LiveBattles == {b \in BattleIds : Has(bstate[b])}

\* the live battle states player p is a participant of
LiveBattlesOf(p) == {b \in LiveBattles : p \in Participants(bstate[b].val)}

\* C1: no player is ever a participant of two distinct live battle states
\* at the same time.
C1_OneLiveBattlePerPlayer ==
  \A p \in Players : Cardinality(LiveBattlesOf(p)) <= 1


\* the answers of /battle that report the challenger, or the opponent, busy
ChallengerBusy == {"ChallengerOnMission", "ChallengerInBattle"}
OpponentBusy   == {"OpponentOnMission", "OpponentInBattle"}

\* C2: /battle of A on another player B is refused as ChallengerBusy whenever a battle of
\* A is still stored (neither concluded nor expired), is refused (as
\* OpponentBusy, unless a check on A refuses it first) whenever the same
\* holds for B, and a refused /battle writes no battle state, lock or
\* lookup record.
C2_BusyChallengeRejected ==
  [][ \A pair \in Challenges :
        BattleCommand(pair[1], pair[2]) /\ pair[1] # pair[2] =>
          /\ LiveBattlesOf(pair[1]) # {} => reply' \in ChallengerBusy
          /\ LiveBattlesOf(pair[2]) # {} =>
               reply' \in OpponentBusy \cup BeforeOpponent
          /\ reply' # "BattleStarted" => UNCHANGED <<bstate, lock, ubid>> ]_vars

\* the /use being handled and the jutsu it pays for
InFlight == req.phase # "idle"
CostOf(jutsu_key) == JUTSU_LIBRARY[jutsu_key].chakra_cost

\* player u had a turn accepted in battle b before the one being handled
ActedBefore(b, u) ==
  \E i \in 1..(Len(hist[b].turns) - 1) : hist[b].turns[i][2] = u

\* C3: the turns accepted in a battle carry the turn counts 1, 2, 3, ... (no
\* count is accepted twice); while a turn is being handled the stored battle
\* state is the one that turn was accepted on (no other turn of the battle
\* runs beside it); and a turn starts from what the earlier turns left: the
\* actor's chakra after paying is the stored chakra less the cost.
C3_TurnsBuildOnPersistedState ==
  /\ \A b \in BattleIds : \A i \in 1..Len(hist[b].turns) : hist[b].turns[i][1] = i
  /\ InFlight =>
       /\ Has(bstate[req.battle_id]) /\ bstate[req.battle_id].val = req.stored
       /\ ActedBefore(req.battle_id, req.user) =>
            req.battle.players[req.user].current_chakra =
              req.stored.players[req.user].current_chakra - CostOf(req.jutsu_key)


\* player u holds a battle record whose stored state gives the turn to the
\* other participant
NotHolder(u) ==
  /\ Has(ubid[u]) /\ Has(bstate[ubid[u].val])
  /\ u \in Participants(bstate[ubid[u].val].val)
  /\ bstate[ubid[u].val].val.turn # u

\* C4: a /use sent by the participant who does not hold the turn changes no
\* stored battle state (hp, chakra, turn count, turn holder, log), no row of
\* the players table and no value get_player returns.
C4_NonHolderChangesNothing ==
  [][ \A use \in Uses :
        UseAccept(use[1], use[2]) /\ NotHolder(use[1]) =>
          /\ UNCHANGED <<bstate, db, lock, ubid>>
          /\ \A p \in Players : get_player(p)' = get_player(p) ]_vars

\* a /use of a participant out of turn has been answered
C4_Witness ==
  /\ reply = "NotYourTurn"
  /\ \E u \in Players : NotHolder(u)

\* the turns of battle b that have run to their end
Completed(b) ==
  Len(hist[b].turns) - (IF InFlight /\ req.battle_id = b THEN 1 ELSE 0)

\* C5: after n accepted turns without a winner the stored battle state has
\* turn_count n + 1, its turn holder is one of the two participants and is
\* not the player of turn n, and no player had two turns in a row.
C5_TurnCountAndAlternation ==
  \A b \in LiveBattles :
    LET s == bstate[b].val
        n == Completed(b)
    IN /\ s.turn_count = n + 1
       /\ s.turn \in Participants(s)
       /\ n >= 1 => s.turn # hist[b].turns[n][2]
       /\ \A i \in 1..(Len(hist[b].turns) - 1) :
            hist[b].turns[i][2] # hist[b].turns[i + 1][2]

\* three turns of one battle have been accepted and completed
C5_Witness ==
  \E b \in LiveBattles : Completed(b) = 3 /\ bstate[b].val.turn_count = 4

\* C6: right after /battle of A on B the turn is held by the one with the
\* strictly higher speed, by A (the challenger) when the speeds are equal,
\* and turn_count is 1.
C6_FirstHolder ==
  \A b \in LiveBattles :
    LET s == bstate[b].val
        A == s.player1_id
        B == s.player2_id
    IN hist[b].turns = <<>> =>
         /\ s.turn_count = 1
         /\ s.turn = IF s.players[B].speed > s.players[A].speed THEN B ELSE A

\* a battle of two equally fast players has just been started
C6_Witness ==
  \E b \in LiveBattles :
    LET s == bstate[b].val
    IN /\ hist[b].turns = <<>>
       /\ s.players[s.player1_id].speed = s.players[s.player2_id].speed
       /\ s.turn = s.player1_id


\* the snapshots of battle record b
WithinBounds(b) ==
  \A p \in Participants(b) :
    /\ 0 <= b.players[p].current_hp /\ b.players[p].current_hp <= b.players[p].max_hp
    /\ 0 <= b.players[p].current_chakra
    /\ b.players[p].current_chakra <= b.players[p].max_chakra

C8_ChakraDeductedInBothStores ==
  [][ \A is_critical \in BOOLEAN :
        UseResolve(is_critical) /\ reply' = "TurnDone" =>
          \A u \in {req.user} : \A b \in {req.battle_id} :
            \A left \in {req.player.current_chakra - CostOf(req.jutsu_key)} :
              /\ bstate'[b].val.players[u].current_chakra = left
              /\ get_player(u)'.current_chakra = left ]_vars

\* C9: when an exception ends a turn, the battle state stored before the
\* turn is still stored and unchanged, the actor's row in the players table
\* carries no chakra deduction, and the turn is answered as failed.
C9_FailedTurnLeavesNoTrace ==
  [][ UseRaise =>
        /\ bstate'[req.battle_id] = bstate[req.battle_id]
        /\ bstate'[req.battle_id].val = req.stored
        /\ db'[req.user].current_chakra = req.player.current_chakra
        /\ reply' = "TurnFailed" ]_vars

\* the effects of the turn accepted on battle b at turn count n are stored:
\* the turn has been handed over, or the battle is concluded with a winner
Committed(b, n) ==
  \/ Has(bstate[b]) /\ bstate[b].val.turn_count = n + 1
  \/ hist[b].concluded /\ hist[b].winner # NONE

\* C10: the effects of an accepted turn are stored before its animation is
\* played, so they are stored when the animation has been played and when
\* an animation step fails.
C10_EffectsCommittedBeforeAnimation ==
  [][ UseAnimate \/ UseRaise =>
        \A b \in {req.battle_id} : \A n \in {req.stored.turn_count} :
          Committed(b, n)' ]_vars

\* player p holds neither a lock nor a lookup record
Released(p) == ~Has(lock[p]) /\ ~Has(ubid[p])

\* battle b has been concluded in favour of w and its state and the lock
\* and lookup records of both its participants are gone
FledTo(b, w, ps) ==
  /\ hist[b].concluded /\ hist[b].winner = w
  /\ ~Has(bstate[b])
  /\ \A p \in ps : Released(p)

\* C11: /flee of a participant of a stored battle, whoever holds the turn,
\* concludes a battle of that player with the other participant as winner
\* and leaves no battle state and no lock or lookup record of either.
C11_FleeConcludesAndReleases ==
  [][ \A u \in Players : \A live \in {LiveBattlesOf(u)} :
        Flee(u) /\ live # {} =>
          \E b \in live : \A s \in {bstate[b].val} :
            FledTo(b, OpponentOf(s, u), Participants(s))' ]_vars


\* C13: every accepted turn that hands the turn over renews the expiry of
\* the battle state, of both lock records and of both lookup records: each
\* of the five runs for BATTLE_CACHE_TTL from the turn.
C13_TurnRefreshesAllExpiries ==
  [][ \A is_critical \in BOOLEAN :
        UseResolve(is_critical) /\ reply' = "TurnDone" =>
          \A b \in {req.battle_id} : \A ps \in {Participants(req.stored)} :
            /\ bstate'[b].exp = now + BATTLE_CACHE_TTL
            /\ \A p \in ps : /\ lock'[p].exp = now + BATTLE_CACHE_TTL
                             /\ ubid'[p].exp = now + BATTLE_CACHE_TTL ]_vars

\* C14: while a battle state is stored, each of its participants holds a
\* lock record naming the other participant and a lookup record naming the
\* battle.
C14_StateImpliesLocksAndLookups ==
  \A b \in LiveBattles : \A p \in Participants(bstate[b].val) :
    /\ Has(lock[p]) /\ lock[p].val = OpponentOf(bstate[b].val, p)
    /\ Has(ubid[p]) /\ ubid[p].val = b


\* player u holds the turn of the stored battle its lookup record names
Holder(u) ==
  /\ Has(ubid[u]) /\ Has(bstate[ubid[u].val])
  /\ bstate[ubid[u].val].val.turn = u

\* the snapshot of u in that battle
SnapshotOf(u) == bstate[ubid[u].val].val.players[u]

\* no stored battle state, no row and no object get_player returns changes
NothingChanges ==
  /\ UNCHANGED <<bstate, db, lock, ubid>>
  /\ \A p \in Players : get_player(p)' = get_player(p)

\* C18: a /use of the turn holder with a jutsu it knows whose cost exceeds
\* its current chakra in the battle is answered InsufficientResource and
\* changes no chakra, hp, turn holder or turn count, in the battle state or
\* the profile.
C18_InsufficientResourceRejected ==
  [][ \A use \in Uses :
        /\ UseAccept(use[1], use[2]) /\ Holder(use[1])
        /\ use[2] \in SnapshotOf(use[1]).known_jutsus
        /\ CostOf(use[2]) > SnapshotOf(use[1]).current_chakra
        => reply' = "InsufficientResource" /\ NothingChanges ]_vars

\* C19: a /use of the turn holder naming a jutsu the library does not hold
\* is answered UnknownAbility, one naming a jutsu of the library the player
\* has not learned is answered AbilityNotLearned, and neither changes any
\* battle or profile state.
C19_UnknownAbilityRejected ==
  [][ \A use \in Uses :
        UseAccept(use[1], use[2]) /\ Holder(use[1]) =>
          /\ use[2] \notin JutsuKeys =>
               reply' = "UnknownAbility" /\ NothingChanges
          /\ use[2] \in JutsuKeys /\ use[2] \notin get_player(use[1]).known_jutsus =>
               reply' = "AbilityNotLearned" /\ NothingChanges ]_vars

\* the challenger passes the checks battle_command makes on the sender alone
Eligible(c) ==
  /\ get_player(c).current_mission = NULL
  /\ ~is_in_battle(c)
  /\ ~is_on_cooldown(get_player(c))
  /\ get_player(c).current_hp > 0

CleanupIds == Players \cup {NONE}

\* some record of a battle is gone while others of it are still held
PartlyMissing(b) ==
  /\ Has(bstate[b])
  /\ \E p \in Participants(bstate[b].val) : ~Has(lock[p]) \/ ~Has(ubid[p])

\* C17: the cleanup of a battle's keys, called a second time with the same
\* arguments, leaves the store as the first call left it, whichever of the
\* state, lock and lookup records are present, missing or expired.
C17_CleanupIdempotent ==
  \A b \in BattleIds : \A p1, p2 \in CleanupIds :
    CleanedStore(CleanedStore(Store, b, p1, p2), b, p1, p2)
      = CleanedStore(Store, b, p1, p2)

\* a battle was concluded and cleaned up, and another battle has lost a
\* part of its records that a cleanup still has to delete
C17_Witness ==
  /\ \E b \in BattleIds : hist[b].concluded /\ ~Has(bstate[b])
  /\ \E b \in BattleIds : \E s \in {bstate[b].val} :
       /\ PartlyMissing(b)
       /\ CleanedStore(Store, b, s.player1_id, s.player2_id) # Store

\* the players whose lookup record names battle b
LookedUpBy(b) == { p \in Players : Has(ubid[p]) /\ ubid[p].val = b }

\* user u holds a lookup record whose battle state is missing
StateMissing(u) == Has(ubid[u]) /\ ~Has(bstate[ubid[u].val])

\* C12: a /use or /flee of a user whose lookup record names a battle with
\* no stored state credits nothing to any player and leaves no participant
\* of that battle with a lock or a lookup record.
C12_MissingStateReleasesBoth ==
  [][ \A u \in Players : \A ps \in {LookedUpBy(ubid[u].val)} :
        /\ StateMissing(u)
        /\ Flee(u) \/ \E use \in FaultUses : use[1] = u /\ UseAccept(u, use[2])
        => /\ db' = db
           /\ \A p \in ps : Released(p)' ]_vars

\* C15: a step that concludes a battle, with the rewards credited or with
\* the crediting failed, leaves neither participant with a lock.
C15_ConclusionReleasesLocks ==
  [][ \A b \in BattleIds : \A s \in {bstate[b].val} :
        ~hist[b].concluded /\ hist'[b].concluded =>
          \A p \in Participants(s) : ~Has(lock[p])' ]_vars

\* a battle was concluded with a winner whose reward was not credited, and
\* neither participant holds a lock
C15_Witness ==
  \E b \in BattleIds : \E p, q \in Players :
    /\ hist[b].concluded /\ hist[b].winner = p /\ p # q
    /\ db[p].wins = 0 /\ db[q].losses = 0
    /\ ~Has(lock[p]) /\ ~Has(lock[q])

\* every battle key of the store was there before the step, as it is
NothingCreated ==
  /\ \A p \in Players : /\ Has(lock[p])' => lock'[p] = lock[p]
                        /\ Has(ubid[p])' => ubid'[p] = ubid[p]
  /\ \A b \in BattleIds : Has(bstate[b])' => bstate'[b] = bstate[b]

\* C16: a /battle that is rejected, whose store writes are refused in part
\* or whose battle message cannot be sent leaves no lock, lookup record or
\* battle state that it wrote.
C16_StartAllOrNothing ==
  [][ \A pair \in FaultChallenges :
        \/ BattleCommand(pair[1], pair[2]) /\ reply' # "BattleStarted"
        \/ \E lost \in WriteFaults : BattleCommandLossy(pair[1], pair[2], lost)
        \/ BattleCommandDisplayFails(pair[1], pair[2])
        => NothingCreated ]_vars

\* a resolution has reached the given phase
Resolved(phase) == req.phase = phase

\* the defender of the resolution in hand, before and after the outcome
DefenderBefore == req.stored.players[OpponentOf(req.stored, req.user)]
DefenderAfter  == req.battle.players[OpponentOf(req.battle, req.user)]

\* C21: when a direct-damage outcome has been applied, the defender's hp is
\* never negative, and it is exactly 0 when the damage exceeded the hp the
\* defender had.
C21_DefenderHpClamped ==
  Resolved("applied") /\ req.res.effect = NULL =>
    /\ DefenderAfter.current_hp >= 0
    /\ req.res.damage > DefenderBefore.current_hp => DefenderAfter.current_hp = 0
    /\ req.res.damage <= DefenderBefore.current_hp =>
         DefenderAfter.current_hp = DefenderBefore.current_hp - req.res.damage

\* a hit stronger than the defender's remaining hp was applied
C21_Witness ==
  /\ Resolved("applied") /\ req.res.effect = NULL
  /\ req.res.damage > DefenderBefore.current_hp
  /\ DefenderAfter.current_hp = 0

\* C28 as stated: the amount calculate_damage returns is >= 0 for a status
\* tag and for plain damage, and it is <= 0 exactly when the effect is heal.
C28_AmountSignAsStated ==
  Resolved("calculated") =>
    /\ req.res.effect \in StatusTags \cup {NULL} => req.res.damage >= 0
    /\ req.res.damage <= 0 <=> req.res.effect = "heal"

\* C28 amended: the amount is >= 0 for every effect but heal, 0 for a
\* status tag, and it is below 0 exactly when the effect is heal.
C28_AmountSign ==
  Resolved("calculated") =>
    /\ req.res.effect # "heal" => req.res.damage >= 0
    /\ req.res.effect \in StatusTags => req.res.damage = 0
    /\ req.res.damage < 0 <=> req.res.effect = "heal"

\* a heal was calculated: its amount is the negated power
C28_Witness ==
  /\ Resolved("calculated") /\ req.res.effect = "heal"
  /\ req.res.damage = 0 - JUTSU_LIBRARY[req.jutsu_key].power
  /\ req.res.damage < 0

\* the damage formula of the specification, in exact arithmetic:
\* floor(base * affinity * matchup * critical * mitigation)
FormulaDamage(attacker, defender, jutsu, is_critical) ==
  LET vb     == get_village_bonus(attacker.village)
      base2  == 2 * jutsu.power + 4 * attacker.level + 3 * attacker.intelligence
      bonus  == IF vb[1] = jutsu.element THEN 100 + vb[2] ELSE 100
      matrix == ELEMENT_MATRIX[jutsu.element][get_village_bonus(defender.village)[1]]
      crit   == IF is_critical THEN 18 ELSE 10
  IN (base2 * bonus * matrix * crit) \div (2 * 100 * 10 * (defender.stamina + 100))

\* C29: the amount calculate_damage returns for a direct-damage jutsu is
\* the floor of the formula's product, critical or not; a level 5 konoha
\* attacker of intelligence 10 using fireball on a suna defender of stamina
\* 10 deals 109 without a critical hit.
C29_DamageFormula ==
  Resolved("calculated") /\ req.res.effect = NULL =>
    LET a == req.battle.players[req.user]
        d == DefenderBefore
    IN /\ req.res.damage =
            FormulaDamage(a, d, JUTSU_LIBRARY[req.jutsu_key], req.res.is_critical)
       /\ /\ a.level = 5 /\ a.intelligence = 10 /\ a.village = "konoha"
          /\ req.jutsu_key = "fireball" /\ d.village = "suna" /\ d.stamina = 10
          /\ ~req.res.is_critical
          => req.res.damage = 109

\* the elements of the matchup table
Elements == {"fire", "water", "wind", "earth", "lightning", "none"}

\* C30: ELEMENT_MATRIX has an entry for each of the 6 x 6 pairs of
\* elements, so the lookup of every resolution is defined; fire against
\* wind is 1.5 and wind against fire is not; where a against b is 1.5, b
\* against a is below 1.0; an element against itself and every pair with
\* none is 1.0.
C30_ElementMatrix ==
  /\ JUTSU_LIBRARY[req.jutsu_key].element \in DOMAIN ELEMENT_MATRIX
  /\ get_village_bonus(DefenderBefore.village)[1]
       \in DOMAIN ELEMENT_MATRIX[JUTSU_LIBRARY[req.jutsu_key].element]
  /\ DOMAIN ELEMENT_MATRIX = Elements
  /\ \A a \in Elements : DOMAIN ELEMENT_MATRIX[a] = Elements
  /\ ELEMENT_MATRIX["fire"]["wind"] = 150
  /\ ELEMENT_MATRIX["wind"]["fire"] # 150
  /\ \A a, b \in Elements :
       ELEMENT_MATRIX[a][b] = 150 => ELEMENT_MATRIX[b][a] < 100
  /\ \A a \in Elements :
       /\ ELEMENT_MATRIX[a][a] = 100
       /\ ELEMENT_MATRIX[a]["none"] = 100
       /\ ELEMENT_MATRIX["none"][a] = 100

\* calculate_damage looked up fire against wind and reported the advantage
C30_Witness ==
  /\ Resolved("calculated")
  /\ JUTSU_LIBRARY[req.jutsu_key].element = "fire"
  /\ get_village_bonus(DefenderBefore.village)[1] = "wind"
  /\ req.res.is_elem_bonus

\* the battle of the turn in hand with its outcome applied
Outcome(is_critical) ==
  ApplyOutcome(req.battle, req.user,
               calculate_damage(req.battle.players[req.user],
                                req.battle.players[OpponentOf(req.battle, req.user)],
                                req.jutsu_key, is_critical))

\* the winner the claim names for a battle after its outcome: the actor
\* when the defender is at 0 hp, else the defender when the actor is
WinnerByHp(b, actor) ==
  IF b.players[OpponentOf(b, actor)].current_hp = 0 THEN actor
  ELSE IF b.players[actor].current_hp = 0 THEN OpponentOf(b, actor)
  ELSE NONE

\* C23: the end of an accepted turn names the winner the hp after the
\* outcome give.  With a winner the battle is concluded for that winner and
\* its state, both locks and both lookup records are gone; without one the
\* state is stored with the turn handed over and the count raised by one.
C23_WinnerExactlyAtZeroHp ==
  [][ \A is_critical \in BOOLEAN :
        UseResolve(is_critical) =>
          \A b \in {req.battle_id} : \A u \in {req.user} :
          \A after \in {Outcome(is_critical)} : \A w \in {WinnerByHp(after, u)} :
            IF w # NONE
            THEN /\ reply' = "BattleWon"
                 /\ hist'[b].concluded /\ hist'[b].winner = w
                 /\ ~Has(bstate[b])'
                 /\ \A p \in Participants(after) : Released(p)'
            ELSE /\ reply' = "TurnDone"
                 /\ ~hist'[b].concluded
                 /\ Has(bstate[b])'
                 /\ bstate'[b].val.players = after.players
                 /\ bstate'[b].val.turn = OpponentOf(after, u)
                 /\ bstate'[b].val.turn_count = after.turn_count + 1 ]_vars

\* a turn has brought the defender to 0 hp: the actor has won and the
\* battle's records are gone
C23_Witness ==
  /\ reply = "BattleWon"
  /\ \E b \in BattleIds :
       /\ hist[b].concluded /\ hist[b].winner # NONE
       /\ Len(hist[b].turns) > 0
       /\ hist[b].turns[Len(hist[b].turns)][2] = hist[b].winner
       /\ ~Has(bstate[b])
       /\ Released(hist[b].winner)

\* C24: a battle that has been concluded has no stored state, whatever is
\* handled afterwards; a turn and a /flee are never handled at once, so no
\* turn stores the state of a battle that was fled from during it.
C24_ConcludedStateNeverReturns ==
  \A b \in BattleIds : hist[b].concluded => ~Has(bstate[b])

\* a battle in which a turn had been played was fled from, and its state
\* is gone
C24_Witness ==
  /\ reply = "Fled"
  /\ \E b \in BattleIds :
       /\ hist[b].concluded /\ hist[b].winner # NONE
       /\ Len(hist[b].turns) > 0
       /\ ~Has(bstate[b])

\* u took part in a battle that is concluded and in none started later
FormerParticipant(u) ==
  \E b \in BattleIds :
    /\ hist[b].concluded /\ u \in hist[b].players
    /\ \A b2 \in BattleIds : b2 > b => u \notin hist[b2].players

\* C25: every /use and every /flee of a participant of a concluded battle
\* who has taken part in no battle started since is answered NotInBattle
\* and changes no battle state, lock, lookup record or profile.
C25_ConcludedIsTerminal ==
  [][ \A u \in Players :
        FormerParticipant(u) =>
          /\ Flee(u) => reply' = "NotInBattle" /\ NothingChanges
          /\ \A use \in Uses :
               use[1] = u /\ UseAccept(u, use[2]) =>
                 reply' = "NotInBattle" /\ NothingChanges /\ req' = Idle ]_vars

\* every player has been in a battle, all their battles are concluded,
\* and the last command was answered NotInBattle
C25_Witness ==
  /\ reply = "NotInBattle"
  /\ \A u \in Players : FormerParticipant(u)

\* the known-ability and chakra checks of a turn, made on pl
PassesChecks(pl, jutsu_key) ==
  /\ jutsu_key \in pl.known_jutsus
  /\ pl.current_chakra >= JUTSU_LIBRARY[jutsu_key].chakra_cost

\* p has played no turn and taken part in no battle but b: no battle has
\* written to p's profile
NoBattleTouched(b, p) ==
  \A b2 \in BattleIds :
    /\ b2 # b => p \notin hist[b2].players
    /\ \A i \in 1..Len(hist[b2].turns) : hist[b2].turns[i][2] # p

\* C22: what happens to a participant's profile outside the battle does not
\* change the acceptance of that participant's turns: as long as no battle
\* has written to the profile, a jutsu passes the known-ability and chakra
\* checks of a turn exactly when it passes them on the snapshot taken at
\* the start of the battle.
C22_ProfileMutationsDoNotPerturb ==
  \A b \in LiveBattles : \A p \in Participants(bstate[b].val) :
    NoBattleTouched(b, p) =>
      \A jutsu_key \in JutsuKeys :
        PassesChecks(get_player(p), jutsu_key)
          <=> PassesChecks(bstate[b].val.players[p], jutsu_key)

\* C26: a /battle that creates a battle state finds both participants
\* distinct, with hp above 0, with no mission or training in their stored
\* profile and no training job pending, and without a battle lock.
C26_CreatedOnlyWhenEligible ==
  [][ \A pair \in TrainChallenges :
        BattleCommand(pair[1], pair[2]) /\ reply' = "BattleStarted" =>
          /\ pair[1] # pair[2]
          /\ \A p \in {pair[1], pair[2]} :
               /\ db[p].current_hp > 0
               /\ db[p].current_mission = NULL
               /\ \A job \in jobs : job.user_id = p => job.done
               /\ ~Has(lock[p]) ]_vars

\* p holds a record of a battle, or a stored battle state names p
HoldsBattleRecord(p) ==
  \/ Has(lock[p]) \/ Has(ubid[p])
  \/ \E b \in LiveBattles : p \in Participants(bstate[b].val)

\* p passes the checks /battle makes on a challenger
AbleToStart(p) ==
  /\ get_player(p).current_mission = NULL
  /\ ~is_in_battle(p)
  /\ ~is_on_cooldown(get_player(p))
  /\ get_player(p).current_hp > 0

\* C27: once the participants have stopped acting, and as long as record
\* expiry goes on, whenever a player holds a battle record a time comes at
\* which no battle state, lock or lookup record is left and every player
\* passes the checks of a challenger again.
C27_AbandonedBattleExpires ==
  (\E p \in Players : HoldsBattleRecord(p))
    ~> (\A p \in Players : ~HoldsBattleRecord(p) /\ AbleToStart(p))

\* a battle that was never concluded has left no record, and its
\* participants can start a new battle
C27_Witness ==
  \E b \in BattleIds :
    /\ hist[b].players # {} /\ ~hist[b].concluded
    /\ Len(hist[b].turns) > 0
    /\ ~Has(bstate[b])
    /\ \A p \in hist[b].players : ~HoldsBattleRecord(p) /\ AbleToStart(p)

\* the actor of the resolution in hand, before and after the outcome
ActorBefore == req.stored.players[req.user]
ActorAfter  == req.battle.players[req.user]

\* C31: when the outcome of a jutsu that is neither a heal nor one of the
\* four status tags has been applied, the defender has lost
\* min(amount, current hp) and the actor's hp is what it was; this holds
\* for a jutsu with another effect tag (dodge, distract) as well.
C31_OtherAbilitiesDealDamage ==
  Resolved("applied") /\ req.res.effect \notin StatusTags \cup {"heal"} =>
    /\ DefenderAfter.current_hp =
         DefenderBefore.current_hp - Min(req.res.damage, DefenderBefore.current_hp)
    /\ ActorAfter.current_hp = ActorBefore.current_hp

\* C32: when the outcome of a heal has been applied, the actor's hp is
\* min(max_hp, hp + abs(amount)) with abs(amount) the jutsu's power, the
\* defender's hp is what it was, and no winner is returned.
C32_HealRestoresActor ==
  Resolved("applied") /\ req.res.effect = "heal" =>
    /\ Abs(req.res.damage) = JUTSU_LIBRARY[req.jutsu_key].power
    /\ ActorAfter.current_hp =
         Min(ActorBefore.max_hp, ActorBefore.current_hp + Abs(req.res.damage))
    /\ DefenderAfter.current_hp = DefenderBefore.current_hp
    /\ req.winner = NONE

\* a heal was applied in full, below the actor's maximum
C32_Witness ==
  /\ Resolved("applied") /\ req.res.effect = "heal"
  /\ ActorAfter.current_hp =
       ActorBefore.current_hp + JUTSU_LIBRARY[req.jutsu_key].power
  /\ ActorAfter.current_hp < ActorAfter.max_hp

\* C33: when the outcome of a status-tagged jutsu (defense_up, evasion_up,
\* stun, accuracy_down) has been applied, the actor's effect map holds that
\* tag with EFFECT_TURNS turns left and neither combatant's hp has changed.
C33_StatusTagRecorded ==
  Resolved("applied") /\ req.res.effect \in StatusTags =>
    /\ <<req.res.effect, EFFECT_TURNS>> \in ActorAfter.battle_effects
    /\ ActorAfter.current_hp = ActorBefore.current_hp
    /\ DefenderAfter.current_hp = DefenderBefore.current_hp

\* C34: a turn of a participant who holds a status effect with n turns
\* left, made with a jutsu that does not set that effect anew, leaves the
\* effect with n - 1 turns, and without it when n - 1 is 0.
C34_EffectCountersDecay ==
  [][ \A is_critical \in BOOLEAN :
        UseResolve(is_critical) =>
          \A b \in {req.battle_id} : \A u \in {req.user} :
          \A held \in {req.stored.players[req.user].battle_effects} :
          \A tag \in {JUTSU_LIBRARY[req.jutsu_key].effect} :
            Has(bstate[b])' =>
              \A e \in held :
                e[1] # tag =>
                  /\ e[2] > 1 =>
                       <<e[1], e[2] - 1>> \in bstate'[b].val.players[u].battle_effects
                  /\ \A n \in 0..EFFECT_TURNS :
                       n # e[2] - 1 =>
                         <<e[1], n>> \notin bstate'[b].val.players[u].battle_effects
    ]_vars

\* C35: every battle state the store holds shows both participants with
\* more than 0 hp.
C35_StoredBattleHasLivingPlayers ==
  \A b \in LiveBattles : \A p \in Participants(bstate[b].val) :
    bstate[b].val.players[p].current_hp > 0

\* a hit has been stored: a participant of a stored battle is below its
\* maximum and above 0
C35_Witness ==
  /\ reply = "TurnDone"
  /\ \E b \in LiveBattles : \E p \in Participants(bstate[b].val) :
       /\ bstate[b].val.players[p].current_hp > 0
       /\ bstate[b].val.players[p].current_hp < bstate[b].val.players[p].max_hp

\* ---------------------------------------------------------------------
\* C36

\* players a and b are locked to each other
LockedTogether(a, b) ==
  /\ Has(lock[a]) /\ lock[a].val = b
  /\ Has(lock[b]) /\ lock[b].val = a

\* C36: the lock and lookup records agree: when the lock of a names b and
\* b holds a lock, the lock of b names a; and when a and b are locked to
\* each other and both hold a lookup record, the two records name the same
\* battle id.
C36_LocksAndLookupsConsistent ==
  \A a, b \in Players :
    /\ Has(lock[a]) /\ lock[a].val = b /\ Has(lock[b]) => lock[b].val = a
    /\ LockedTogether(a, b) /\ Has(ubid[a]) /\ Has(ubid[b])
         => ubid[a].val = ubid[b].val

\* ---------------------------------------------------------------------
\* C37

\* player p holds a lock and a lookup record naming the stored battle y, of
\* which p is a participant
CommittedTo(p, y) ==
  /\ Has(lock[p])
  /\ Has(ubid[p]) /\ ubid[p].val = y
  /\ Has(bstate[y]) /\ p \in Participants(bstate[y].val)

\* this step concludes battle x or deletes its stored state
CleansUp(x) ==
  /\ now' = now
  /\ \/ ~hist[x].concluded /\ hist'[x].concluded
     \/ Has(bstate[x]) /\ ~Has(bstate[x])'

\* C37: a step that concludes or cleans up battle x leaves in place the
\* lock and the lookup record of every player who is committed to a
\* different stored battle y.
C37_CleanupTouchesOwnRecordsOnly ==
  [][ \A x, y \in BattleIds : \A p \in Players :
        CleansUp(x) /\ x # y /\ CommittedTo(p, y)
          => Has(lock[p])' /\ ubid'[p] = ubid[p] ]_vars

\* ---------------------------------------------------------------------
\* C38

RECURSIVE SumOver(_, _)
\* the sum of the values of field over the rows of the players ps
SumOver(ps, field) ==
  IF ps = {} THEN 0
  ELSE LET p == CHOOSE q \in ps : TRUE
       IN  db[p][field] + SumOver(ps \ {p}, field)

\* C38: the wins recorded over all players equal the losses recorded over
\* all players: every concluded battle added one win to one participant
\* and one loss to the other.
C38_WinsEqualLosses ==
  SumOver(Players, "wins") = SumOver(Players, "losses")

\* ---------------------------------------------------------------------
\* C39

\* C39: a /battle that creates a battle takes as challenger and as
\* opponent only players whose stored post-battle cooldown has elapsed.
C39_NoBattleDuringCooldown ==
  [][ \A pair \in FaultChallenges \cup Challenges :
        BattleCommand(pair[1], pair[2]) /\ nextId' = nextId + 1
          => /\ ~is_on_cooldown(db[pair[1]])
             /\ ~is_on_cooldown(db[pair[2]]) ]_vars


=============================================================================
